---- MODULE Spec2Model ----
(***************************************************************************)
(* Air-quality index calculators and severity classifiers of the two       *)
(* dashboards: air_app.py (EPA-style breakpoints) and                      *)
(* streamlit_aqi_app.py (weighted linear sum).                             *)
(*                                                                         *)
(* Python floats are IEEE-754 binary64 values.  They are modelled exactly: *)
(* a float is a record [s, e, m] standing for (-1)^s * m * 2^e, where the  *)
(* significand m is a natural number of exactly 53 bits (or zero), kept as *)
(* a little-endian sequence of 14-bit limbs so that every intermediate     *)
(* product stays inside TLC's 32-bit integers.  Every arithmetic operator  *)
(* rounds to nearest, ties to even, as the hardware does.  Overflow,       *)
(* subnormals, infinities and NaN are outside the magnitudes the           *)
(* dashboards handle (1e-2 .. 1e4) and are not represented.                *)
(***************************************************************************)
EXTENDS Integers, Sequences, FiniteSets, TLC

----------------------------------------------------------------------------
(* Natural numbers of arbitrary size: little-endian limbs, no leading      *)
(* zero limb, zero is the empty sequence.                                  *)

LimbBits == 14
Base == 2 ^ LimbBits
MantBits == 53

Max(a, b) == IF a >= b THEN a ELSE b
Min(a, b) == IF a <= b THEN a ELSE b

RECURSIVE BNorm(_)
BNorm(a) ==
    IF a = <<>> THEN a
    ELSE IF a[Len(a)] = 0 THEN BNorm(SubSeq(a, 1, Len(a) - 1))
    ELSE a

Limb(a, i) == IF i >= 1 /\ i <= Len(a) THEN a[i] ELSE 0

RECURSIVE BFromInt(_)
BFromInt(n) == IF n = 0 THEN <<>> ELSE <<n % Base>> \o BFromInt(n \div Base)

RECURSIVE BToInt(_)
BToInt(a) == IF a = <<>> THEN 0 ELSE a[1] + Base * BToInt(Tail(a))

RECURSIVE BAddR(_, _, _, _)
BAddR(a, b, i, carry) ==
    IF i > Len(a) /\ i > Len(b)
    THEN (IF carry = 0 THEN <<>> ELSE <<carry>>)
    ELSE LET t == Limb(a, i) + Limb(b, i) + carry
         IN  <<t % Base>> \o BAddR(a, b, i + 1, t \div Base)

BAdd(a, b) == BAddR(a, b, 1, 0)

RECURSIVE BCmpR(_, _, _)
BCmpR(a, b, i) ==
    IF i = 0 THEN 0
    ELSE IF a[i] > b[i] THEN 1
    ELSE IF a[i] < b[i] THEN -1
    ELSE BCmpR(a, b, i - 1)

\* -1, 0 or 1 as a < b, a = b, a > b
BCmp(a, b) ==
    IF Len(a) > Len(b) THEN 1
    ELSE IF Len(a) < Len(b) THEN -1
    ELSE BCmpR(a, b, Len(a))

RECURSIVE BSubR(_, _, _, _)
BSubR(a, b, i, borrow) ==
    IF i > Len(a) THEN <<>>
    ELSE LET t == a[i] - Limb(b, i) - borrow
         IN  IF t < 0 THEN <<t + Base>> \o BSubR(a, b, i + 1, 1)
             ELSE <<t>> \o BSubR(a, b, i + 1, 0)

\* a - b for a >= b
BSub(a, b) == BNorm(BSubR(a, b, 1, 0))

RECURSIVE BMulSmallR(_, _, _, _)
BMulSmallR(a, k, i, carry) ==
    IF i > Len(a) THEN BFromInt(carry)
    ELSE LET t == a[i] * k + carry
         IN  <<t % Base>> \o BMulSmallR(a, k, i + 1, t \div Base)

\* a * k for 0 <= k <= Base
BMulSmall(a, k) == IF k = 0 THEN <<>> ELSE BMulSmallR(a, k, 1, 0)

Zeros(n) == [i \in 1..n |-> 0]

BShlLimbs(a, n) == IF a = <<>> THEN a ELSE Zeros(n) \o a

RECURSIVE BMulR(_, _, _)
BMulR(a, b, i) ==
    IF i > Len(b) THEN <<>>
    ELSE BAdd(BShlLimbs(BMulSmall(a, b[i]), i - 1), BMulR(a, b, i + 1))

BMul(a, b) == BMulR(a, b, 1)

RECURSIVE BDivSmallR(_, _, _, _, _)
BDivSmallR(a, d, i, r, q) ==
    IF i = 0 THEN [q |-> q, r |-> r]
    ELSE BDivSmallR(a, d, i - 1, (r * Base + a[i]) % d,
                    <<(r * Base + a[i]) \div d>> \o q)

\* quotient and remainder of a by d, for 1 <= d <= 2^16
BDivSmall(a, d) ==
    LET res == BDivSmallR(a, d, Len(a), 0, <<>>)
    IN  [q |-> BNorm(res.q), r |-> res.r]

\* a * 2^n
BShl(a, n) == BShlLimbs(BMulSmall(a, 2 ^ (n % LimbBits)), n \div LimbBits)

\* floor(a / 2^n)
BShr(a, n) ==
    LET k == n \div LimbBits
    IN  IF k >= Len(a) THEN <<>>
        ELSE BDivSmall(SubSeq(a, k + 1, Len(a)), 2 ^ (n % LimbBits)).q

RECURSIVE IntBitLen(_)
IntBitLen(n) == IF n = 0 THEN 0 ELSE 1 + IntBitLen(n \div 2)

BBitLen(a) ==
    IF a = <<>> THEN 0 ELSE LimbBits * (Len(a) - 1) + IntBitLen(a[Len(a)])

\* bit i (counted from 0) of a
BBit(a, i) ==
    i >= 0 /\ (Limb(a, i \div LimbBits + 1) \div 2 ^ (i % LimbBits)) % 2 = 1

\* a mod 2^n = 0
BLowZero(a, n) ==
    /\ \A i \in 1..Min(n \div LimbBits, Len(a)) : a[i] = 0
    /\ Limb(a, n \div LimbBits + 1) % 2 ^ (n % LimbBits) = 0

BIsOdd(a) == Limb(a, 1) % 2 = 1

\* a rounded to the nearest multiple of 2^n and divided by 2^n, ties to
\* even; sticky says that the exact value lies strictly above a
BShrRound(a, n, sticky) ==
    IF n <= 0 THEN a
    ELSE LET q    == BShr(a, n)
             half == BBit(a, n - 1)
             low  == sticky \/ ~BLowZero(a, n - 1)
         IN  IF half /\ (low \/ BIsOdd(q)) THEN BAdd(q, <<1>>) ELSE q

\* the largest g + k, 0 <= k < 2^(b+1), with (g + k) * d <= r
RECURSIVE DigitR(_, _, _, _)
DigitR(r, d, b, g) ==
    IF b < 0 THEN g
    ELSE IF BCmp(BMulSmall(d, g + 2 ^ b), r) <= 0
    THEN DigitR(r, d, b - 1, g + 2 ^ b)
    ELSE DigitR(r, d, b - 1, g)

\* the remainder r takes in limb i of a
DivShift(a, i, r) == BNorm(<<a[i]>> \o r)

RECURSIVE BDivModR(_, _, _, _, _)
BDivModR(a, d, i, r, q) ==
    IF i = 0 THEN [q |-> BNorm(q), r |-> r]
    ELSE LET g == DigitR(DivShift(a, i, r), d, LimbBits - 1, 0)
         IN  BDivModR(a, d, i - 1,
                      BSub(DivShift(a, i, r), BMulSmall(d, g)), <<g>> \o q)

\* quotient and remainder of a by d, d # 0 (schoolbook long division)
BDivMod(a, d) == BDivModR(a, d, Len(a), <<>>, <<>>)

----------------------------------------------------------------------------
(* Python float: binary64, round to nearest, ties to even.                 *)

FZero == [s |-> 0, e |-> 0, m |-> <<>>]

FIsZero(x) == x.m = <<>>

\* the float nearest to (-1)^s * (m [+ a positive fraction if sticky]) * 2^e
FRound(s, e, m, sticky) ==
    IF m = <<>> THEN [s |-> s, e |-> 0, m |-> <<>>]
    ELSE LET n == BBitLen(m)
         IN  IF n <= MantBits
             THEN [s |-> s, e |-> e - (MantBits - n), m |-> BShl(m, MantBits - n)]
             ELSE LET q == BShrRound(m, n - MantBits, sticky)
                  IN  IF BBitLen(q) > MantBits
                      THEN [s |-> s, e |-> e + (n - MantBits) + 1, m |-> BShr(q, 1)]
                      ELSE [s |-> s, e |-> e + (n - MantBits), m |-> q]

FNeg(x) == [x EXCEPT !.s = 1 - x.s]

\* the float nearest to the fraction n / d of two integers, d > 0: an int
\* or decimal literal, an int converted to float, and int / int
FromRat(n, d) ==
    LET a  == IF n < 0 THEN -n ELSE n
        qr == BDivSmall(BShl(BFromInt(a), 5 * LimbBits), d)
    IN  FRound(IF n < 0 THEN 1 ELSE 0, -(5 * LimbBits), qr.q, qr.r # 0)

FromInt(n) == FromRat(n, 1)

\* -1, 0 or 1 as |x| < |y|, |x| = |y|, |x| > |y|
FCmpMag(x, y) ==
    IF FIsZero(x) \/ FIsZero(y)
    THEN (IF FIsZero(x) /\ FIsZero(y) THEN 0 ELSE IF FIsZero(x) THEN -1 ELSE 1)
    ELSE IF x.e # y.e THEN (IF x.e > y.e THEN 1 ELSE -1)
    ELSE BCmp(x.m, y.m)

\* -1, 0 or 1 as x < y, x = y, x > y
FCmp(x, y) ==
    LET nx == x.s = 1 /\ ~FIsZero(x)
        ny == y.s = 1 /\ ~FIsZero(y)
    IN  IF nx /\ ~ny THEN -1
        ELSE IF ~nx /\ ny THEN 1
        ELSE IF nx THEN -FCmpMag(x, y)
        ELSE FCmpMag(x, y)

FLe(x, y) == FCmp(x, y) <= 0
FLt(x, y) == FCmp(x, y) < 0
FEq(x, y) == FCmp(x, y) = 0

\* x + y
FAdd(x, y) ==
    IF FIsZero(x) THEN (IF FIsZero(y) THEN [FZero EXCEPT !.s = x.s * y.s] ELSE y)
    ELSE IF FIsZero(y) THEN x
    ELSE LET e == Min(x.e, y.e)
             a == BShl(x.m, x.e - e)
             b == BShl(y.m, y.e - e)
             c == BCmp(a, b)
         IN  IF x.s = y.s THEN FRound(x.s, e, BAdd(a, b), FALSE)
             ELSE IF c = 0 THEN FZero
             ELSE IF c > 0 THEN FRound(x.s, e, BSub(a, b), FALSE)
             ELSE FRound(y.s, e, BSub(b, a), FALSE)

\* x - y
FSub(x, y) == FAdd(x, FNeg(y))

\* x * y
FMul(x, y) == FRound((x.s + y.s) % 2, x.e + y.e, BMul(x.m, y.m), FALSE)

\* x / y for y # 0
FDiv(x, y) ==
    LET qr == BDivMod(BShl(x.m, 4 * LimbBits), y.m)
    IN  FRound((x.s + y.s) % 2, x.e - 4 * LimbBits - y.e, qr.q, qr.r # <<>>)

\* round(x, 1): the exact value of x rounded to one decimal place, ties to
\* even, as a signed count of tenths
RoundTenths(x) ==
    LET t == BMulSmall(x.m, 10)
        q == IF x.e >= 0 THEN BShl(t, x.e) ELSE BShrRound(t, -x.e, FALSE)
    IN  IF x.s = 1 THEN -BToInt(q) ELSE BToInt(q)

\* faulty variant of Round1: cuts the digits after the first decimal place
\* instead of rounding
Round1Truncating(x) ==
    LET t == BToInt(IF x.e >= 0 THEN BShl(BMulSmall(x.m, 10), x.e)
                    ELSE BShr(BMulSmall(x.m, 10), -x.e))
    IN  IF t = 0 THEN [FZero EXCEPT !.s = x.s]
        ELSE FromRat(IF x.s = 1 THEN -t ELSE t, 10)

\* round(x, 1) as the float Python returns: the float nearest to the decimal
Round1(x) ==
    LET t == RoundTenths(x)
    IN  IF t = 0 THEN [FZero EXCEPT !.s = x.s] ELSE FromRat(t, 10)

----------------------------------------------------------------------------
(* air_app.py: EPA-style breakpoint calculator and six-tier classifier     *)

\* the int operands of the two scripts, as the floats Python converts them
\* to when it meets them in float arithmetic or comparison
Int_10 == FromInt(10)
Int_12 == FromInt(12)
Int_50 == FromInt(50)
Int_51 == FromInt(51)
Int_54 == FromInt(54)
Int_55 == FromInt(55)
Int_100 == FromInt(100)
Int_101 == FromInt(101)
Int_150 == FromInt(150)
Int_151 == FromInt(151)
Int_154 == FromInt(154)
Int_155 == FromInt(155)
Int_200 == FromInt(200)
Int_201 == FromInt(201)
Int_254 == FromInt(254)
Int_255 == FromInt(255)
Int_300 == FromInt(300)
Int_301 == FromInt(301)
Int_354 == FromInt(354)
Int_355 == FromInt(355)
Int_424 == FromInt(424)
Int_425 == FromInt(425)
Int_500 == FromInt(500)

\* the float literals of streamlit_aqi_app.py
Lit_2_5 == FromRat(25, 10)
Lit_1_2 == FromRat(12, 10)
Lit_0_5 == FromRat(5, 10)
Lit_0_3 == FromRat(3, 10)
Lit_0_4 == FromRat(4, 10)


\* faulty variant of get_aqi_status: the names of the fourth and fifth tier
\* are exchanged
get_aqi_status_swapped(aqi) ==
    IF FLe(aqi, Int_50) THEN
        [status |-> "Good", color |-> "#28a745"]
    ELSE IF FLe(aqi, Int_100) THEN
        [status |-> "Moderate", color |-> "#ffc107"]
    ELSE IF FLe(aqi, Int_150) THEN
        [status |-> "Unhealthy for Sensitive Groups", color |-> "#ff9800"]
    ELSE IF FLe(aqi, Int_200) THEN
        [status |-> "Very Unhealthy", color |-> "#9c27b0"]
    ELSE IF FLe(aqi, Int_300) THEN
        [status |-> "Unhealthy", color |-> "#dc3545"]
    ELSE
        [status |-> "Hazardous", color |-> "#6c757d"]

\* get_aqi_status: the 'status' and 'color' entries of the returned dict
\* (icons, message and recommendations are display text fixed per tier)
get_aqi_status(aqi) ==
    IF FLe(aqi, Int_50) THEN
        [status |-> "Good", color |-> "#28a745"]
    ELSE IF FLe(aqi, Int_100) THEN
        [status |-> "Moderate", color |-> "#ffc107"]
    ELSE IF FLe(aqi, Int_150) THEN
        [status |-> "Unhealthy for Sensitive Groups", color |-> "#ff9800"]
    ELSE IF FLe(aqi, Int_200) THEN
        [status |-> "Unhealthy", color |-> "#dc3545"]
    ELSE IF FLe(aqi, Int_300) THEN
        [status |-> "Very Unhealthy", color |-> "#9c27b0"]
    ELSE
        [status |-> "Hazardous", color |-> "#6c757d"]

\* the float literals and quotients of calculate_aqi, each evaluated as
\* Python evaluates it
Lit_12_1  == FromRat(121, 10)
Lit_35_4  == FromRat(354, 10)
Lit_35_5  == FromRat(355, 10)
Lit_55_4  == FromRat(554, 10)
Lit_55_5  == FromRat(555, 10)
Lit_150_4 == FromRat(1504, 10)
Lit_150_5 == FromRat(1505, 10)
Lit_250_4 == FromRat(2504, 10)
Lit_250_5 == FromRat(2505, 10)

Pm25Slope1 == FromRat(50, 12)
Pm25Slope2 == FDiv(FromInt(100 - 51), FSub(Lit_35_4, Lit_12_1))
Pm25Slope3 == FDiv(FromInt(150 - 101), FSub(Lit_55_4, Lit_35_5))
Pm25Slope4 == FDiv(FromInt(200 - 151), FSub(Lit_150_4, Lit_55_5))
Pm25Slope5 == FDiv(FromInt(300 - 201), FSub(Lit_250_4, Lit_150_5))
Pm25Slope6 == FDiv(FromInt(500 - 301), FSub(Int_500, Lit_250_5))

Pm10Slope1 == FromRat(50, 54)
Pm10Slope2 == FromRat(100 - 51, 154 - 55)
Pm10Slope3 == FromRat(150 - 101, 254 - 155)
Pm10Slope4 == FromRat(200 - 151, 354 - 255)
Pm10Slope5 == FromRat(300 - 201, 424 - 355)
Pm10Slope6 == FromRat(500 - 301, 500 - 425)

\* faulty variant of Pm25SubIndex: the third segment starts from the output
\* value of the fourth
Pm25SubIndexWrongBase(pm25) ==
    IF FLe(pm25, Int_12) THEN
        FMul(Pm25Slope1, pm25)
    ELSE IF FLe(pm25, Lit_35_4) THEN
        FAdd(FMul(Pm25Slope2, FSub(pm25, Lit_12_1)), Int_51)
    ELSE IF FLe(pm25, Lit_55_4) THEN
        FAdd(FMul(Pm25Slope3, FSub(pm25, Lit_35_5)), Int_151)
    ELSE IF FLe(pm25, Lit_150_4) THEN
        FAdd(FMul(Pm25Slope4, FSub(pm25, Lit_55_5)), Int_151)
    ELSE IF FLe(pm25, Lit_250_4) THEN
        FAdd(FMul(Pm25Slope5, FSub(pm25, Lit_150_5)), Int_201)
    ELSE
        FAdd(FMul(Pm25Slope6, FSub(pm25, Lit_250_5)), Int_301)

\* PM2.5 sub-index
Pm25SubIndex(pm25) ==
    IF FLe(pm25, Int_12) THEN
        FMul(Pm25Slope1, pm25)
    ELSE IF FLe(pm25, Lit_35_4) THEN
        FAdd(FMul(Pm25Slope2, FSub(pm25, Lit_12_1)), Int_51)
    ELSE IF FLe(pm25, Lit_55_4) THEN
        FAdd(FMul(Pm25Slope3, FSub(pm25, Lit_35_5)), Int_101)
    ELSE IF FLe(pm25, Lit_150_4) THEN
        FAdd(FMul(Pm25Slope4, FSub(pm25, Lit_55_5)), Int_151)
    ELSE IF FLe(pm25, Lit_250_4) THEN
        FAdd(FMul(Pm25Slope5, FSub(pm25, Lit_150_5)), Int_201)
    ELSE
        FAdd(FMul(Pm25Slope6, FSub(pm25, Lit_250_5)), Int_301)

\* PM10 sub-index
Pm10SubIndex(pm10) ==
    IF FLe(pm10, Int_54) THEN
        FMul(Pm10Slope1, pm10)
    ELSE IF FLe(pm10, Int_154) THEN
        FAdd(FMul(Pm10Slope2, FSub(pm10, Int_55)), Int_51)
    ELSE IF FLe(pm10, Int_254) THEN
        FAdd(FMul(Pm10Slope3, FSub(pm10, Int_155)), Int_101)
    ELSE IF FLe(pm10, Int_354) THEN
        FAdd(FMul(Pm10Slope4, FSub(pm10, Int_255)), Int_151)
    ELSE IF FLe(pm10, Int_424) THEN
        FAdd(FMul(Pm10Slope5, FSub(pm10, Int_355)), Int_201)
    ELSE
        FAdd(FMul(Pm10Slope6, FSub(pm10, Int_425)), Int_301)

\* faulty variant of PyMax: the smaller of the two
PyMin(a, b) == IF FLt(b, a) THEN b ELSE a

\* Python's max(a, b): b only when it is strictly greater
PyMax(a, b) == IF FLt(a, b) THEN b ELSE a

\* faulty variant of calculate_aqi: NO2 takes part in the maximum
calculate_aqi_with_no2(pm25, pm10, no2, so2, co, o3) ==
    LET pm25_sub == Pm25SubIndex(pm25)
        pm10_sub == Pm10SubIndex(pm10)
    IN  [pm25_index |-> pm25_sub,
         pm10_index |-> pm10_sub,
         ret        |-> Round1(PyMax(PyMax(pm25_sub, pm10_sub), no2))]

\* calculate_aqi of air_app.py: its two locals and the value it returns;
\* no2, so2, co and o3 are parameters the body never reads
calculate_aqi(pm25, pm10, no2, so2, co, o3) ==
    LET pm25_sub == Pm25SubIndex(pm25)
        pm10_sub == Pm10SubIndex(pm10)
    IN  [pm25_index |-> pm25_sub,
         pm10_index |-> pm10_sub,
         ret        |-> Round1(PyMax(pm25_sub, pm10_sub))]

----------------------------------------------------------------------------
(* streamlit_aqi_app.py: weighted-sum calculator and classifier            *)

\* faulty variant of streamlit_calculate_aqi: the sum is not divided by 10
streamlit_calculate_aqi_undivided(pm25, pm10, no2, so2, co, o3) ==
    LET aqi == FAdd(FAdd(FAdd(FAdd(FAdd(FMul(pm25, Lit_2_5),
                                        FMul(pm10, Lit_1_2)),
                                   FMul(no2, Lit_0_5)),
                              FMul(so2, Lit_0_3)),
                         FMul(co, Int_10)),
                    FMul(o3, Lit_0_4))
    IN  Round1(aqi)

\* faulty variant of streamlit_calculate_aqi: the SO2 term is subtracted
streamlit_calculate_aqi_minus_so2(pm25, pm10, no2, so2, co, o3) ==
    LET aqi == FAdd(FAdd(FSub(FAdd(FAdd(FMul(pm25, Lit_2_5),
                                        FMul(pm10, Lit_1_2)),
                                   FMul(no2, Lit_0_5)),
                              FMul(so2, Lit_0_3)),
                         FMul(co, Int_10)),
                    FMul(o3, Lit_0_4))
    IN  Round1(FDiv(aqi, Int_10))

\* calculate_aqi of streamlit_aqi_app.py
streamlit_calculate_aqi(pm25, pm10, no2, so2, co, o3) ==
    LET aqi == FAdd(FAdd(FAdd(FAdd(FAdd(FMul(pm25, Lit_2_5),
                                        FMul(pm10, Lit_1_2)),
                                   FMul(no2, Lit_0_5)),
                              FMul(so2, Lit_0_3)),
                         FMul(co, Int_10)),
                    FMul(o3, Lit_0_4))
    IN  Round1(FDiv(aqi, Int_10))

\* faulty variant of get_aqi_category: the upper bounds are exclusive
get_aqi_category_exclusive(aqi) ==
    IF FLt(aqi, Int_50) THEN
        [category |-> "Good", class |-> "good", color |-> "#28a745"]
    ELSE IF FLt(aqi, Int_100) THEN
        [category |-> "Moderate", class |-> "moderate", color |-> "#ffc107"]
    ELSE IF FLt(aqi, Int_150) THEN
        [category |-> "Unhealthy for Sensitive Groups", class |-> "moderate",
         color |-> "#ffc107"]
    ELSE IF FLt(aqi, Int_200) THEN
        [category |-> "Unhealthy", class |-> "poor", color |-> "#dc3545"]
    ELSE IF FLt(aqi, Int_300) THEN
        [category |-> "Very Unhealthy", class |-> "poor", color |-> "#dc3545"]
    ELSE
        [category |-> "Hazardous", class |-> "poor", color |-> "#dc3545"]

\* get_aqi_category: 'category', 'class' and 'color' of the returned dict
get_aqi_category(aqi) ==
    IF FLe(aqi, Int_50) THEN
        [category |-> "Good", class |-> "good", color |-> "#28a745"]
    ELSE IF FLe(aqi, Int_100) THEN
        [category |-> "Moderate", class |-> "moderate", color |-> "#ffc107"]
    ELSE IF FLe(aqi, Int_150) THEN
        [category |-> "Unhealthy for Sensitive Groups", class |-> "moderate",
         color |-> "#ffc107"]
    ELSE IF FLe(aqi, Int_200) THEN
        [category |-> "Unhealthy", class |-> "poor", color |-> "#dc3545"]
    ELSE IF FLe(aqi, Int_300) THEN
        [category |-> "Very Unhealthy", class |-> "poor", color |-> "#dc3545"]
    ELSE
        [category |-> "Hazardous", class |-> "poor", color |-> "#dc3545"]

----------------------------------------------------------------------------
(* State: one run of the calculator and classifier of each dashboard on a  *)
(* reading.  A variable that is not yet assigned is the empty sequence, an *)
(* assigned one the one-element sequence of its value.                     *)

VARIABLES
    reading,        \* the six number_input values, in hundredths
    pm25_index,     \* air_app calculate_aqi: PM2.5 sub-index
    pm10_index,     \* air_app calculate_aqi: PM10 sub-index
    aqi,            \* air_app: the index calculate_aqi returned
    info,           \* air_app: get_aqi_status(aqi)
    st_aqi,         \* streamlit_aqi_app: the index calculate_aqi returned
    category_info,  \* streamlit_aqi_app: get_aqi_category(aqi)
    db,             \* air_app: users.db, its tables users, settings, history
    session,        \* air_app: st.session_state
    run,            \* air_app: what the last script run did and showed
    st_session,     \* streamlit_aqi_app: st.session_state
    st_run          \* streamlit_aqi_app: how the last script run ended

calcvars == <<reading, pm25_index, pm10_index, aqi, info, st_aqi, category_info>>

appvars == <<db, session, run>>

stvars == <<st_session, st_run>>

vars == <<reading, pm25_index, pm10_index, aqi, info, st_aqi, category_info,
          db, session, run, st_session, st_run>>

None == <<>>
Some(v) == <<v>>
Val(x) == x[1]

\* a number_input value of n hundredths as the float handed to the script
ToFloat(n) == FromRat(n, 100)

\* the values the predictor form of air_app.py starts with
DefaultReading ==
    [pm25 |-> 3500, pm10 |-> 7000, no2 |-> 4000, so2 |-> 2000,
     co |-> 200, o3 |-> 6000]

\* upper ends of the PM2.5 and PM10 inputs of air_app.py
MaxPM25 == 500
MaxPM10 == 600

\* largest index handed to the classifiers, in tenths
MaxAqiTenths == 7700

\* init_db on a new users.db: the three tables, empty.  A table is the set
\* of its rows; history, whose id is AUTOINCREMENT, is the sequence of its
\* rows in the order of id.  Timestamps are left out of the rows.
EmptyDb == [users |-> {}, settings |-> {}, history |-> <<>>]

\* st.session_state of air_app.py after the first script run; nav_page is
\* set by main_app only, and "" stands for the key being absent
NewSession ==
    [logged_in          |-> FALSE,
     username           |-> "",
     page               |-> "login",
     last_prediction    |-> None,
     notification_shown |-> FALSE,
     settings           |-> None,
     nav_page           |-> ""]

\* nothing run yet: no st.rerun() pending, nothing shown, no alert call made
NoRun ==
    [event   |-> "start",
     message |-> "",
     rerun   |-> FALSE,
     raised  |-> FALSE,
     alert   |-> FALSE,
     calls   |-> {}]

\* st.session_state of streamlit_aqi_app.py after the first script run
StNewSession == [predicted |-> FALSE]

\* the dashboards are not running
AppUnused == db = EmptyDb /\ session = NewSession /\ run = NoRun

StUnused == st_session = StNewSession /\ st_run = "start"

\* air_app.py: aqi = calculate_aqi(pm25, pm10, no2, so2, co, o3)
CalculateAqi ==
    /\ reading # None
    /\ aqi = None
    /\ \E call \in {calculate_aqi(ToFloat(Val(reading).pm25),
                                    ToFloat(Val(reading).pm10),
                                    ToFloat(Val(reading).no2),
                                    ToFloat(Val(reading).so2),
                                    ToFloat(Val(reading).co),
                                    ToFloat(Val(reading).o3))} :
           /\ pm25_index' = Some(call.pm25_index)
           /\ pm10_index' = Some(call.pm10_index)
           /\ aqi' = Some(call.ret)
    /\ UNCHANGED <<reading, info, st_aqi, category_info>>
    /\ UNCHANGED <<appvars, stvars>>

\* air_app.py: info = get_aqi_status(aqi)
GetAqiStatus ==
    /\ aqi # None
    /\ info = None
    /\ info' = Some(get_aqi_status(Val(aqi)))
    /\ UNCHANGED <<reading, pm25_index, pm10_index, aqi, st_aqi, category_info>>
    /\ UNCHANGED <<appvars, stvars>>

\* streamlit_aqi_app.py: aqi = calculate_aqi(pm25, pm10, no2, so2, co, o3)
StreamlitCalculateAqi ==
    /\ reading # None
    /\ st_aqi = None
    /\ LET r == Val(reading)
       IN  st_aqi' = Some(streamlit_calculate_aqi(
                              ToFloat(r.pm25), ToFloat(r.pm10), ToFloat(r.no2),
                              ToFloat(r.so2), ToFloat(r.co), ToFloat(r.o3)))
    /\ UNCHANGED <<reading, pm25_index, pm10_index, aqi, info, category_info>>
    /\ UNCHANGED <<appvars, stvars>>

\* streamlit_aqi_app.py: category_info = get_aqi_category(aqi)
GetAqiCategory ==
    /\ st_aqi # None
    /\ category_info = None
    /\ category_info' = Some(get_aqi_category(Val(st_aqi)))
    /\ UNCHANGED <<reading, pm25_index, pm10_index, aqi, info, st_aqi>>
    /\ UNCHANGED <<appvars, stvars>>

Unassigned ==
    /\ pm25_index = None
    /\ pm10_index = None
    /\ aqi = None
    /\ info = None
    /\ st_aqi = None
    /\ category_info = None
    /\ AppUnused
    /\ StUnused

\* the PM2.5 segment ends of calculate_aqi, in hundredths
Pm25Breaks == {1200, 3540, 5540, 15040, 25040}

\* half-width, in hundredths, of the band around each segment end that is
\* taken at 0.01 resolution
FineWindow == 100

\* PM2.5 inputs: the whole input range at 0.1 resolution, and a band around
\* every segment end at 0.01 resolution
Pm25Inputs ==
    {10 * c : c \in 0..(MaxPM25 * 10)} \cup
    {b + d : b \in Pm25Breaks, d \in (-FineWindow)..FineWindow}

\* PM2.5 over its input range, the rest at the form's defaults
InitPM25 ==
    /\ \E c \in Pm25Inputs :
           reading = Some([DefaultReading EXCEPT !.pm25 = c])
    /\ Unassigned

\* PM10 over its whole input range at 0.1 resolution
InitPM10 ==
    /\ \E c \in 0..(MaxPM10 * 10) :
           reading = Some([DefaultReading EXCEPT !.pm10 = 10 * c])
    /\ Unassigned

NextAir == CalculateAqi \/ GetAqiStatus

SpecPM25 == InitPM25 /\ [][NextAir]_vars
SpecPM10 == InitPM10 /\ [][NextAir]_vars

\* the classifiers on every index value of one decimal place
InitClassify ==
    /\ reading = None
    /\ pm25_index = None
    /\ pm10_index = None
    /\ \E t \in 0..MaxAqiTenths :
           /\ aqi = Some(FromRat(t, 10))
           /\ st_aqi = Some(FromRat(t, 10))
    /\ info = None
    /\ category_info = None
    /\ AppUnused
    /\ StUnused

NextClassify == GetAqiStatus \/ GetAqiCategory

SpecClassify == InitClassify /\ [][NextClassify]_vars

\* readings for both calculators: a grid of the two particulates around the
\* segment ends with the other four at the form's defaults, and every
\* combination of a negative value, zero and the default for all six
GridPM25 == {0, 30, 1200, 1210, 3500, 3540, 3545, 5550, 15000, 25050, 50000}
GridPM10 == {0, 2700, 5400, 5450, 7000, 15400, 25500, 35400, 35410, 42400,
             42410, 60000}

Negative == 0 - 100

CalcReadings ==
    {[DefaultReading EXCEPT !.pm25 = a, !.pm10 = b] :
        a \in GridPM25, b \in GridPM10} \cup
    [pm25 : {Negative, 0, DefaultReading.pm25},
     pm10 : {Negative, 0, DefaultReading.pm10},
     no2  : {Negative, 0, DefaultReading.no2},
     so2  : {Negative, 0, DefaultReading.so2},
     co   : {Negative, 0, DefaultReading.co},
     o3   : {Negative, 0, DefaultReading.o3}]

InitCalc ==
    /\ \E r \in CalcReadings : reading = Some(r)
    /\ Unassigned

NextCalc ==
    CalculateAqi \/ GetAqiStatus \/ StreamlitCalculateAqi \/ GetAqiCategory

SpecCalc == InitCalc /\ [][NextCalc]_vars

----------------------------------------------------------------------------
(* air_app.py: the accounts and their tables                               *)

\* hashlib.sha256(password.encode()).hexdigest(): a digest, not the
\* password, and a different one for a different password
hash_password(password) == <<"sha256", password>>

\* the settings row INSERT INTO settings (username) creates, by the column
\* defaults of init_db; theme, language, chart_type and show_grid are left out
DefaultSettingsRow(username) ==
    [username |-> username, email_notify |-> TRUE, sms_notify |-> FALSE,
     alert_threshold |-> 150]

HasUser(d, username) == \E u \in d.users : u.username = username

HasSettings(d, username) == \E row \in d.settings : row.username = username

\* faulty variant of create_user: the account is inserted without its
\* settings row
create_user_without_settings(d, username, password, email, phone) ==
    IF HasUser(d, username) THEN
        [db |-> d, ret |-> FALSE]
    ELSE
        [db  |-> [d EXCEPT !.users = @ \cup
                      {[username |-> username,
                        password |-> hash_password(password),
                        email    |-> email,
                        phone    |-> phone]}],
         ret |-> TRUE]

\* create_user: both INSERTs are committed together; an IntegrityError on
\* either primary key leaves the transaction uncommitted and returns False
create_user(d, username, password, email, phone) ==
    IF HasUser(d, username) \/ HasSettings(d, username) THEN
        [db |-> d, ret |-> FALSE]
    ELSE
        [db  |-> [d EXCEPT !.users = @ \cup
                      {[username |-> username,
                        password |-> hash_password(password),
                        email    |-> email,
                        phone    |-> phone]},
                  !.settings = @ \cup {DefaultSettingsRow(username)}],
         ret |-> TRUE]

\* faulty variant of verify_login: the password is not compared
verify_login_any_password(d, username, password) ==
    \E u \in d.users : u.username = username

verify_login(d, username, password) ==
    \E u \in d.users :
        u.username = username /\ u.password = hash_password(password)

\* get_user_settings: the user's row as a dict, the defaults without a row
get_user_settings(d, username) ==
    IF HasSettings(d, username) THEN
        LET row == CHOOSE r \in d.settings : r.username = username
        IN  [email_notify    |-> row.email_notify,
             sms_notify      |-> row.sms_notify,
             alert_threshold |-> row.alert_threshold]
    ELSE
        [email_notify |-> TRUE, sms_notify |-> FALSE, alert_threshold |-> 150]

\* save_user_settings: UPDATE of the user's settings row
save_user_settings(d, username, settings) ==
    [d EXCEPT !.settings =
        {IF row.username = username
         THEN [username        |-> username,
               email_notify    |-> settings.email_notify,
               sms_notify      |-> settings.sms_notify,
               alert_threshold |-> settings.alert_threshold]
         ELSE row : row \in @}]

\* get_user_details: the users row, None without one
get_user_details(d, username) ==
    IF HasUser(d, username)
    THEN Some(CHOOSE u \in d.users : u.username = username)
    ELSE None

\* faulty variant of save_to_history: the new row takes the place of the
\* user's earlier rows
save_to_history_replacing(d, username, index, r) ==
    [d EXCEPT !.history =
        Append(SelectSeq(@, LAMBDA row : row.username # username),
               [username |-> username, aqi |-> index,
                pm25 |-> r.pm25, pm10 |-> r.pm10, no2 |-> r.no2,
                so2 |-> r.so2, co |-> r.co, o3 |-> r.o3,
                status |-> get_aqi_status(index).status])]

\* save_to_history: INSERT of one row, r the six concentrations
save_to_history(d, username, index, r) ==
    [d EXCEPT !.history =
        Append(@, [username |-> username, aqi |-> index,
                   pm25 |-> r.pm25, pm10 |-> r.pm10, no2 |-> r.no2,
                   so2 |-> r.so2, co |-> r.co, o3 |-> r.o3,
                   status |-> get_aqi_status(index).status])]

\* get_user_history: the user's rows, newest first, at most limit of them
get_user_history(d, username, limit) ==
    LET own == SelectSeq(d.history, LAMBDA row : row.username = username)
        n   == Len(own)
    IN  [i \in 1..Min(n, limit) |-> own[n + 1 - i]]

\* get_user_stats: COUNT(*) of the user's rows; AVG, MAX and MIN of aqi are
\* left out
get_user_stats(d, username) ==
    [total |-> Len(SelectSeq(d.history, LAMBDA row : row.username = username))]

----------------------------------------------------------------------------
(* air_app.py: alerts.  What delivery does is outside the script: env says *)
(* whether the credentials are set in the environment and how the delivery *)
(* ends when it is tried.                                                  *)

\* faulty variant of send_email_alert: an exception of the delivery leaves
\* the function
send_email_alert_raising(recipient, env) ==
    IF ~env.configured THEN
        [raised |-> FALSE, attempted |-> FALSE,
         ret |-> <<FALSE, "Email credentials not configured">>]
    ELSE IF env.delivery = "ok" THEN
        [raised |-> FALSE, attempted |-> TRUE,
         ret |-> <<TRUE, "Email sent successfully">>]
    ELSE
        [raised |-> TRUE, attempted |-> TRUE, ret |-> <<FALSE, "">>]

\* send_email_alert: (success, diagnostic); raised tells whether an
\* exception leaves the function, attempted whether SMTP was contacted
send_email_alert(recipient, env) ==
    IF ~env.configured THEN
        [raised |-> FALSE, attempted |-> FALSE,
         ret |-> <<FALSE, "Email credentials not configured">>]
    ELSE IF env.delivery = "ok" THEN
        [raised |-> FALSE, attempted |-> TRUE,
         ret |-> <<TRUE, "Email sent successfully">>]
    ELSE
        [raised |-> FALSE, attempted |-> TRUE, ret |-> <<FALSE, "str(e)">>]

\* send_sms_alert: (success, diagnostic); the gateway may accept the
\* message, answer without 'return', or the request may raise
send_sms_alert(phone, env) ==
    IF ~env.configured THEN
        [raised |-> FALSE, attempted |-> FALSE,
         ret |-> <<FALSE, "SMS API key not configured">>]
    ELSE IF env.delivery = "ok" THEN
        [raised |-> FALSE, attempted |-> TRUE,
         ret |-> <<TRUE, "SMS sent successfully">>]
    ELSE IF env.delivery = "rejected" THEN
        [raised |-> FALSE, attempted |-> TRUE,
         ret |-> <<FALSE, "result.get('message', 'Unknown error')">>]
    ELSE
        [raised |-> FALSE, attempted |-> TRUE, ret |-> <<FALSE, "str(e)">>]

NoEnv == [configured |-> FALSE, delivery |-> "none"]

EmailEnvs ==
    {[configured |-> FALSE, delivery |-> "none"],
     [configured |-> TRUE, delivery |-> "ok"],
     [configured |-> TRUE, delivery |-> "error"]}

SmsEnvs ==
    {[configured |-> FALSE, delivery |-> "none"],
     [configured |-> TRUE, delivery |-> "ok"],
     [configured |-> TRUE, delivery |-> "rejected"],
     [configured |-> TRUE, delivery |-> "error"]}

----------------------------------------------------------------------------
(* air_app.py: one script run of main_app.  d is users.db and s            *)
(* st.session_state when the run starts; the result is both after the run  *)
(* and the record of what the run did.                                     *)

\* the sidebar's pages; nav_page is NoPage until main_app sets it
Pages == {"Dashboard", "Predict AQI", "History", "Profile", "Settings"}

NoPage == ""

\* a run that reached no alert branch
Ran(event, message, rerun) ==
    [event |-> event, message |-> message, rerun |-> rerun, raised |-> FALSE,
     alert |-> FALSE, calls |-> {}]

\* faulty variant of PredictorSubmit: notification_shown is left as it was
PredictorSubmitKeepsFlag(d, s, r, returned) ==
    LET index == returned
    IN  [db      |-> save_to_history(d, s.username, index, r),
         session |-> [s EXCEPT
                        !.last_prediction =
                            Some([aqi |-> index, pm25 |-> r.pm25,
                                  pm10 |-> r.pm10, no2 |-> r.no2,
                                  so2 |-> r.so2, co |-> r.co, o3 |-> r.o3])],
         run     |-> Ran("submit", "Prediction complete!", TRUE)]

\* faulty variant of PredictorSubmit: the index of the last prediction is
\* used again when there is one
PredictorSubmitCached(d, s, r, returned) ==
    LET index == IF s.last_prediction # None
                 THEN Val(s.last_prediction).aqi
                 ELSE returned
    IN  [db      |-> save_to_history(d, s.username, index, r),
         session |-> [s EXCEPT
                        !.last_prediction =
                            Some([aqi |-> index, pm25 |-> r.pm25,
                                  pm10 |-> r.pm10, no2 |-> r.no2,
                                  so2 |-> r.so2, co |-> r.co, o3 |-> r.o3]),
                        !.notification_shown = FALSE],
         run     |-> Ran("submit", "Prediction complete!", TRUE)]

\* show_predictor, the branch of the form's submit button, from the return
\* of calculate_aqi(pm25, pm10, no2, so2, co, o3) on: returned is that
\* value, r the six inputs.  st.rerun() ends the run before the results
\* column.
PredictorSubmit(d, s, r, returned) ==
    LET index == returned
    IN  [db      |-> save_to_history(d, s.username, index, r),
         session |-> [s EXCEPT
                        !.last_prediction =
                            Some([aqi |-> index, pm25 |-> r.pm25,
                                  pm10 |-> r.pm10, no2 |-> r.no2,
                                  so2 |-> r.so2, co |-> r.co, o3 |-> r.o3]),
                        !.notification_shown = FALSE],
         run     |-> Ran("submit", "Prediction complete!", TRUE)]

\* faulty variant of AlertBranch: notification_shown is not set
AlertBranchKeepsFlag(d, s, event, index, em, sm) ==
    LET settings == Val(s.settings)
        user  == get_user_details(d, s.username)
        email ==
            IF settings.email_notify /\ user # None /\ Val(user).email # ""
            THEN {[channel |-> "email", to |-> Val(user).email, aqi |-> index,
                   result |-> send_email_alert(Val(user).email, em)]}
            ELSE {}
        stopped == \E c \in email : c.result.raised
        sms ==
            IF ~stopped /\ settings.sms_notify /\ user # None
               /\ Val(user).phone # ""
            THEN {[channel |-> "sms", to |-> Val(user).phone, aqi |-> index,
                   result |-> send_sms_alert(Val(user).phone, sm)]}
            ELSE {}
        raised == \E c \in email \cup sms : c.result.raised
    IN  [db      |-> d,
         session |-> s,
         run     |-> [event |-> event, message |-> "", rerun |-> FALSE,
                      raised |-> raised, alert |-> TRUE,
                      calls |-> email \cup sms]]

\* show_predictor, the alert branch: the e-mail and the SMS as the settings
\* and the stored contact details allow, then notification_shown
AlertBranch(d, s, event, index, em, sm) ==
    LET settings == Val(s.settings)
        user  == get_user_details(d, s.username)
        email ==
            IF settings.email_notify /\ user # None /\ Val(user).email # ""
            THEN {[channel |-> "email", to |-> Val(user).email, aqi |-> index,
                   result |-> send_email_alert(Val(user).email, em)]}
            ELSE {}
        stopped == \E c \in email : c.result.raised
        sms ==
            IF ~stopped /\ settings.sms_notify /\ user # None
               /\ Val(user).phone # ""
            THEN {[channel |-> "sms", to |-> Val(user).phone, aqi |-> index,
                   result |-> send_sms_alert(Val(user).phone, sm)]}
            ELSE {}
        raised == \E c \in email \cup sms : c.result.raised
    IN  [db      |-> d,
         session |-> IF raised THEN s
                     ELSE [s EXCEPT !.notification_shown = TRUE],
         run     |-> [event |-> event, message |-> "", rerun |-> FALSE,
                      raised |-> raised, alert |-> TRUE,
                      calls |-> email \cup sms]]

\* faulty variant of PredictorResults: the alert branch is taken from the
\* threshold on, not above it
PredictorResultsFromThreshold(d, s, event, em, sm) ==
    IF s.last_prediction = None THEN
        [db |-> d, session |-> s, run |-> Ran(event, "", FALSE)]
    ELSE
        LET index == Val(s.last_prediction).aqi
        IN  IF FLe(FromInt(Val(s.settings).alert_threshold), index)
               /\ ~s.notification_shown
            THEN AlertBranch(d, s, event, index, em, sm)
            ELSE [db |-> d, session |-> s, run |-> Ran(event, "", FALSE)]

\* show_predictor, the results column: the last prediction is shown, and
\* above the threshold the alert branch is taken once
PredictorResults(d, s, event, em, sm) ==
    IF s.last_prediction = None THEN
        [db |-> d, session |-> s, run |-> Ran(event, "", FALSE)]
    ELSE
        LET index == Val(s.last_prediction).aqi
        IN  IF FLt(FromInt(Val(s.settings).alert_threshold), index)
               /\ ~s.notification_shown
            THEN AlertBranch(d, s, event, index, em, sm)
            ELSE [db |-> d, session |-> s, run |-> Ran(event, "", FALSE)]

\* the script's choice between login_page and main_app
ShowsMainApp(s) == s.logged_in

\* show_history, show_profile and show_settings
OtherPage(d, s, event) ==
    [db |-> d, session |-> s, run |-> Ran(event, "", FALSE)]

\* show_dashboard: reads the user's last 50 rows
show_dashboard(d, s, event) ==
    [db |-> d, session |-> s,
     run |-> Ran(event,
                 IF Len(get_user_history(d, s.username, 50)) = 0
                 THEN "No predictions yet" ELSE "", FALSE)]

\* main_app: settings loaded when missing, the sidebar with its
\* navigation buttons, the quick stats and the logout button, then the page
\* nav_page names.  event is the widget that caused the run: "nav" with the
\* page, "logout", "submit" with the six inputs and the value calculate_aqi
\* returns for them, "none" for a plain rerun.
main_app(d, s, event, arg, em, sm) ==
    LET s1 == IF s.settings = None
              THEN [s EXCEPT !.settings =
                                 Some(get_user_settings(d, s.username))]
              ELSE s
        s2 == IF s1.nav_page = NoPage
              THEN [s1 EXCEPT !.nav_page = "Dashboard"]
              ELSE s1
        s3 == IF event = "nav" THEN [s2 EXCEPT !.nav_page = arg] ELSE s2
    IN  IF event = "logout" THEN
            [db      |-> d,
             session |-> [s3 EXCEPT !.logged_in = FALSE, !.username = "",
                                    !.settings = None],
             run     |-> Ran(event, "", TRUE)]
        ELSE IF s3.nav_page = "Dashboard" THEN
            show_dashboard(d, s3, event)
        ELSE IF s3.nav_page = "Predict AQI" THEN
            IF event = "submit"
            THEN PredictorSubmit(d, s3, arg.inputs, arg.index)
            ELSE PredictorResults(d, s3, event, em, sm)
        ELSE
            OtherPage(d, s3, event)

\* login_page, the Login form's submit button
login_submit(d, s, username, password) ==
    IF username # "" /\ password # "" THEN
        IF verify_login(d, username, password) THEN
            [db      |-> d,
             session |-> [s EXCEPT !.logged_in = TRUE, !.username = username,
                                   !.settings =
                                       Some(get_user_settings(d, username))],
             run     |-> Ran("login", "Login successful!", TRUE)]
        ELSE
            [db |-> d, session |-> s,
             run |-> Ran("login", "Invalid username or password", FALSE)]
    ELSE
        [db |-> d, session |-> s,
         run |-> Ran("login", "Please enter both username and password",
                     FALSE)]

\* login_page, the Sign Up form's submit button
signup_submit(d, s, new_username, new_password, confirm_password, email, phone) ==
    IF new_username # "" /\ new_password # "" /\ confirm_password # ""
       /\ email # "" /\ phone # ""
    THEN
        IF new_password = confirm_password THEN
            LET made == create_user(d, new_username, new_password, email,
                                    phone)
            IN  IF made.ret THEN
                    [db |-> made.db, session |-> s,
                     run |-> Ran("signup", "Account created! Please login.",
                                 TRUE)]
                ELSE
                    [db |-> made.db, session |-> s,
                     run |-> Ran("signup", "Username already exists", FALSE)]
        ELSE
            [db |-> d, session |-> s,
             run |-> Ran("signup", "Passwords do not match", FALSE)]
    ELSE
        [db |-> d, session |-> s,
         run |-> Ran("signup", "Please fill all fields", FALSE)]

----------------------------------------------------------------------------
(* air_app.py: the script runs a user can cause                            *)

Usernames == {"asha", "ravi"}

Passwords == {"pw1", "pw2"}

MailOf(username) == IF username = "asha" THEN "asha@mail" ELSE "ravi@mail"

PhoneOf(username) == IF username = "asha" THEN "9000000001" ELSE "9000000002"

\* most rows the history table gets
MaxHistory == 2

ZeroReading ==
    [pm25 |-> 0, pm10 |-> 0, no2 |-> 0, so2 |-> 0, co |-> 0, o3 |-> 0]

\* readings submitted to the predictor: all zero (index 0.0), PM2.5 55.4
\* (index 150.0, the default threshold) and PM2.5 150 (index 199.8)
AppReadings ==
    {ZeroReading,
     [DefaultReading EXCEPT !.pm25 = 5540],
     [DefaultReading EXCEPT !.pm25 = 15000]}

\* delivery is of concern to the runs that show the predictor only
EmailEnvsOn(page) == IF page = "Predict AQI" THEN EmailEnvs ELSE {NoEnv}

SmsEnvsOn(page) == IF page = "Predict AQI" THEN SmsEnvs ELSE {NoEnv}

\* the run takes over what the script did
Takes(result) ==
    \E out \in {result} :
        db' = out.db /\ session' = out.session /\ run' = out.run

Login ==
    /\ ~run.rerun
    /\ ~ShowsMainApp(session)
    /\ \E username \in {""} \cup Usernames, password \in {""} \cup Passwords :
           Takes(login_submit(db, session, username, password))
    /\ UNCHANGED <<calcvars, stvars>>

SignUp ==
    /\ ~run.rerun
    /\ ~ShowsMainApp(session)
    /\ \E new_username \in {""} \cup Usernames, new_password \in Passwords,
          confirm_password \in Passwords :
           \E email \in {"", MailOf(new_username)},
              phone \in {"", PhoneOf(new_username)} :
               Takes(signup_submit(db, session, new_username, new_password,
                                   confirm_password, email, phone))
    /\ UNCHANGED <<calcvars, stvars>>

Navigate ==
    /\ ~run.rerun
    /\ ShowsMainApp(session)
    /\ \E page \in Pages :
           \E em \in EmailEnvsOn(page), sm \in SmsEnvsOn(page) :
               Takes(main_app(db, session, "nav", page, em, sm))
    /\ UNCHANGED <<calcvars, stvars>>

Logout ==
    /\ ~run.rerun
    /\ ShowsMainApp(session)
    /\ Takes(main_app(db, session, "logout", "", NoEnv, NoEnv))
    /\ UNCHANGED <<calcvars, stvars>>

\* the predictor form is on the page the last run showed; its submit
\* button calls calculate_aqi on the six inputs
Predict ==
    /\ ~run.rerun
    /\ ShowsMainApp(session)
    /\ session.nav_page = "Predict AQI"
    /\ Len(db.history) < MaxHistory
    /\ \E r \in AppReadings :
           \E index \in {calculate_aqi(ToFloat(r.pm25), ToFloat(r.pm10),
                                       ToFloat(r.no2), ToFloat(r.so2),
                                       ToFloat(r.co), ToFloat(r.o3)).ret} :
               Takes(main_app(db, session, "submit",
                              [inputs |-> r, index |-> index], NoEnv, NoEnv))
    /\ UNCHANGED <<calcvars, stvars>>

\* the run st.rerun() starts
Rerun ==
    /\ run.rerun
    /\ IF ShowsMainApp(session)
       THEN \E em \in EmailEnvsOn(session.nav_page),
               sm \in SmsEnvsOn(session.nav_page) :
                Takes(main_app(db, session, "none", "", em, sm))
       ELSE Takes([db |-> db, session |-> session,
                   run |-> Ran("none", "", FALSE)])
    /\ UNCHANGED <<calcvars, stvars>>

\* the page is loaded anew: a new st.session_state on the same users.db
StartSession ==
    /\ ~run.rerun
    /\ db' = db
    /\ session' = NewSession
    /\ run' = NoRun
    /\ UNCHANGED <<calcvars, stvars>>

\* settings rows save_user_settings can have left in users.db
SettingsChoices ==
    {[email_notify |-> TRUE, sms_notify |-> FALSE, alert_threshold |-> 150],
     [email_notify |-> TRUE, sms_notify |-> TRUE, alert_threshold |-> 100],
     [email_notify |-> FALSE, sms_notify |-> TRUE, alert_threshold |-> 150],
     [email_notify |-> FALSE, sms_notify |-> FALSE, alert_threshold |-> 100]}

\* users.db as earlier use of the dashboard can have left it: both accounts
\* created, the first with its settings saved
EarlierDbs ==
    {save_user_settings(
         create_user(create_user(EmptyDb, "asha", "pw1", MailOf("asha"),
                                 PhoneOf("asha")).db,
                     "ravi", "pw1", MailOf("ravi"), PhoneOf("ravi")).db,
         "asha", c) : c \in SettingsChoices}

\* a new session on an earlier users.db
InitApp ==
    /\ db \in EarlierDbs
    /\ session = NewSession
    /\ run = NoRun
    /\ reading = None
    /\ pm25_index = None
    /\ pm10_index = None
    /\ aqi = None
    /\ info = None
    /\ st_aqi = None
    /\ category_info = None
    /\ StUnused

NextApp ==
    Login \/ SignUp \/ Navigate \/ Logout \/ Predict \/ Rerun \/ StartSession

SpecApp == InitApp /\ [][NextApp]_vars

\* a new session on a new users.db
InitAccounts ==
    /\ db = EmptyDb
    /\ session = NewSession
    /\ run = NoRun
    /\ reading = None
    /\ pm25_index = None
    /\ pm10_index = None
    /\ aqi = None
    /\ info = None
    /\ st_aqi = None
    /\ category_info = None
    /\ StUnused

SpecAccounts == InitAccounts /\ [][NextApp]_vars

----------------------------------------------------------------------------
(* streamlit_aqi_app.py: the script runs.  Streamlit executes the file     *)
(* from the top in a new namespace on every run, so a name is bound at a   *)
(* line only if its def stands above that line.                            *)

\* line 75: pm25 == 0 and pm10 == 0 and ... and o3 == 0
AllZeroInputs(r) ==
    r.pm25 = 0 /\ r.pm10 = 0 /\ r.no2 = 0 /\ r.so2 = 0 /\ r.co = 0 /\ r.o3 = 0

\* the line of each def of the script
DefLine ==
    [calculate_aqi |-> 153, get_aqi_category |-> 158,
     get_nearest_city |-> 173, get_health_tips |-> 179,
     plot_pollutant_chart |-> 221]

\* whether the name is bound when the run reaches the line
Bound(name, line) == DefLine[name] < line

Cities ==
    {"Chennai", "Mumbai", "Delhi", "Bangalore", "Hyderabad", "Kolkata",
     "Pune", "Ahmedabad", "Coimbatore", "Madurai"}

\* get_health_tips: the 'level' of the returned dict
get_health_tips(index) ==
    IF FLe(index, Int_50) THEN [level |-> "good"]
    ELSE IF FLe(index, Int_150) THEN [level |-> "moderate"]
    ELSE [level |-> "poor"]

\* the Predict button's branch of the script (lines 74 to 93) on the six
\* widget values r; city is what random.choice picks
predict_button(s, r, city) ==
    IF AllZeroInputs(r) THEN
        [session |-> s, ended |-> "warning"]
    ELSE IF ~Bound("calculate_aqi", 79) THEN
        [session |-> s, ended |-> "NameError"]
    ELSE
        LET index == streamlit_calculate_aqi(
                         ToFloat(r.pm25), ToFloat(r.pm10), ToFloat(r.no2),
                         ToFloat(r.so2), ToFloat(r.co), ToFloat(r.o3))
        IN  IF ~Bound("get_aqi_category", 80)
               \/ ~Bound("get_health_tips", 81)
               \/ ~Bound("get_nearest_city", 82)
            THEN [session |-> s, ended |-> "NameError"]
            ELSE [session |-> [predicted     |-> TRUE,
                               aqi           |-> index,
                               category_info |-> get_aqi_category(index),
                               health_tips   |-> get_health_tips(index),
                               nearest_city  |-> city,
                               values        |-> r],
                  ended   |-> "predicted"]

\* values of the six number_input widgets of streamlit_aqi_app.py, in
\* hundredths: none below the widgets' minimum 0.0
StReadings ==
    {[DefaultReading EXCEPT !.pm25 = a, !.pm10 = b] :
        a \in GridPM25, b \in GridPM10} \cup
    [pm25 : {0, DefaultReading.pm25}, pm10 : {0, DefaultReading.pm10},
     no2  : {0, DefaultReading.no2},  so2  : {0, DefaultReading.so2},
     co   : {0, DefaultReading.co},   o3   : {0, DefaultReading.o3}]

\* the user changes widget values: a run without the button
StSetInputs ==
    /\ \E r \in StReadings : reading' = Some(r)
    /\ st_run' = "rendered"
    /\ UNCHANGED <<pm25_index, pm10_index, aqi, info, st_aqi, category_info,
                   st_session, appvars>>

\* the user presses Predict AQI
StPredict ==
    /\ \E city \in Cities :
           \E out \in {predict_button(st_session, Val(reading), city)} :
               /\ st_session' = out.session
               /\ st_run' = out.ended
    /\ UNCHANGED <<calcvars, appvars>>

\* a new session, the widgets at their default values
InitStreamlit ==
    /\ reading = Some(DefaultReading)
    /\ pm25_index = None
    /\ pm10_index = None
    /\ aqi = None
    /\ info = None
    /\ st_aqi = None
    /\ category_info = None
    /\ AppUnused
    /\ StUnused

NextStreamlit == StSetInputs \/ StPredict

SpecStreamlit == InitStreamlit /\ [][NextStreamlit]_vars

----------------------------------------------------------------------------
(* Properties                                                              *)

Tiers ==
    <<"Good", "Moderate", "Unhealthy for Sensitive Groups", "Unhealthy",
      "Very Unhealthy", "Hazardous">>

\* position of a tier name in the order of severity, 0 for any other string
TierRank(name) ==
    IF \E i \in 1..Len(Tiers) : Tiers[i] = name
    THEN CHOOSE i \in 1..Len(Tiers) : Tiers[i] = name
    ELSE 0

\* the tier the threshold table gives an index of t tenths
TierOfTenths(t) ==
    IF t <= 500 THEN "Good"
    ELSE IF t <= 1000 THEN "Moderate"
    ELSE IF t <= 1500 THEN "Unhealthy for Sensitive Groups"
    ELSE IF t <= 2000 THEN "Unhealthy"
    ELSE IF t <= 3000 THEN "Very Unhealthy"
    ELSE "Hazardous"

\* an index value as its count of tenths
Tenths(x) == RoundTenths(Val(x))

\* lo < v <= hi
InHalfOpen(lo, v, hi) == FLt(lo, v) /\ FLe(v, hi)

NonNegative(r) ==
    r.pm25 >= 0 /\ r.pm10 >= 0 /\ r.no2 >= 0 /\ r.so2 >= 0 /\ r.co >= 0 /\ r.o3 >= 0

AllZero(r) ==
    r.pm25 = 0 /\ r.pm10 = 0 /\ r.no2 = 0 /\ r.so2 = 0 /\ r.co = 0 /\ r.o3 = 0

\* C1: both classifiers return the tier of the inclusive upper bounds 50,
\* 100, 150, 200, 300 for every index value; 50.0 is Good, 50.1 Moderate,
\* 300.0 Very Unhealthy, 300.1 Hazardous; and the two agree on the name.
C1_TierTable ==
    /\ info # None =>
          /\ Val(info).status = TierOfTenths(Tenths(aqi))
          /\ Tenths(aqi) = 500 => Val(info).status = "Good"
          /\ Tenths(aqi) = 501 => Val(info).status = "Moderate"
          /\ Tenths(aqi) = 3000 => Val(info).status = "Very Unhealthy"
          /\ Tenths(aqi) = 3001 => Val(info).status = "Hazardous"
    /\ category_info # None =>
          /\ Val(category_info).category = TierOfTenths(Tenths(st_aqi))
          /\ Tenths(st_aqi) = 500 => Val(category_info).category = "Good"
          /\ Tenths(st_aqi) = 501 => Val(category_info).category = "Moderate"
          /\ Tenths(st_aqi) = 3000 => Val(category_info).category = "Very Unhealthy"
          /\ Tenths(st_aqi) = 3001 => Val(category_info).category = "Hazardous"
    /\ (info # None /\ category_info # None /\ FEq(Val(aqi), Val(st_aqi))) =>
          Val(info).status = Val(category_info).category

\* both classifiers have classified 50.1, as Moderate
C1_Witness ==
    /\ info # None
    /\ category_info # None
    /\ Tenths(aqi) = 501
    /\ Tenths(st_aqi) = 501
    /\ Val(info).status = "Moderate"
    /\ Val(category_info).category = "Moderate"

\* index values, in tenths, that every classified index is compared with
ProbeTenths ==
    {0, 250, 499, 500, 501, 750, 999, 1000, 1001, 1250, 1499, 1500, 1501,
     1750, 1999, 2000, 2001, 2500, 2999, 3000, 3001, 5000, 7653}

\* each of them with the rank of the tier get_aqi_status gives it
ProbeRanks ==
    {<<y, TierRank(get_aqi_status(FromRat(y, 10)).status)>> : y \in ProbeTenths}

\* C2: get_aqi_status is total and tier-monotonic: it returns one of the six
\* tiers, and for index values x <= y the tier of x is never more severe
\* than the tier of y.
C2_Monotonic ==
    info # None =>
        \A x \in {Tenths(aqi)}, rank \in {TierRank(Val(info).status)} :
            /\ rank >= 1
            /\ \A y \in ProbeRanks :
                  /\ y[2] >= 1
                  /\ x <= y[1] => rank <= y[2]
                  /\ y[1] <= x => y[2] <= rank

\* 150.1 has been classified, strictly above the tier of 150.0
C2_Witness ==
    /\ info # None
    /\ Tenths(aqi) = 1501
    /\ Val(info).status = "Unhealthy"
    /\ \E y \in ProbeRanks : y[1] = 1500 /\ y[2] < TierRank(Val(info).status)

\* C3 as stated: the PM2.5 sub-index lies in the output range of the
\* concentration's segment, [0,12] in [0,50], (12,35.4] in (51,100],
\* (35.4,55.4] in (101,150], (55.4,150.4] in (151,200], (150.4,250.4] in
\* (201,300], above 250.4 in (301,500).
C3_Original ==
    pm25_index # None =>
        LET p == Val(reading).pm25
            v == Val(pm25_index)
        IN  /\ p <= 1200 => FLe(FZero, v) /\ FLe(v, Int_50)
            /\ (1200 < p /\ p <= 3540) => InHalfOpen(Int_51, v, Int_100)
            /\ (3540 < p /\ p <= 5540) => InHalfOpen(Int_101, v, Int_150)
            /\ (5540 < p /\ p <= 15040) => InHalfOpen(Int_151, v, Int_200)
            /\ (15040 < p /\ p <= 25040) => InHalfOpen(Int_201, v, Int_300)
            /\ 25040 < p => FLt(Int_301, v) /\ FLt(v, Int_500)

\* C3 (amended): the PM2.5 sub-index lies between the output ranges of
\* neighbouring segments: [0,12] in [0,50], (12,35.4] in (50,100],
\* (35.4,55.4] in (100,150], (55.4,150.4] in (150,200], (150.4,250.4] in
\* (200,300], and (250.4,500] in (300,500].
C3_Ranges ==
    pm25_index # None =>
        LET p == Val(reading).pm25
            v == Val(pm25_index)
        IN  /\ p <= 1200 => FLe(FZero, v) /\ FLe(v, Int_50)
            /\ (1200 < p /\ p <= 3540) => InHalfOpen(Int_50, v, Int_100)
            /\ (3540 < p /\ p <= 5540) => InHalfOpen(Int_100, v, Int_150)
            /\ (5540 < p /\ p <= 15040) => InHalfOpen(Int_150, v, Int_200)
            /\ (15040 < p /\ p <= 25040) => InHalfOpen(Int_200, v, Int_300)
            /\ 25040 < p => InHalfOpen(Int_300, v, Int_500)

\* the sub-index of 12.05, a concentration between the segment end 12 and
\* the interpolation start 12.1, has been computed and is below 51
C3_Witness ==
    /\ pm25_index # None
    /\ Val(reading).pm25 = 1205
    /\ InHalfOpen(Int_50, Val(pm25_index), Int_51)

\* C4 as stated: the PM10 sub-index lies in the output range of the
\* concentration's segment, [0,54] in [0,50], (54,154] in (51,100],
\* (154,254] in (101,150], (254,354] in (151,200], (354,424] in (201,300],
\* above 424 in (301,500).
C4_Original ==
    pm10_index # None =>
        LET p == Val(reading).pm10
            v == Val(pm10_index)
        IN  /\ p <= 5400 => FLe(FZero, v) /\ FLe(v, Int_50)
            /\ (5400 < p /\ p <= 15400) => InHalfOpen(Int_51, v, Int_100)
            /\ (15400 < p /\ p <= 25400) => InHalfOpen(Int_101, v, Int_150)
            /\ (25400 < p /\ p <= 35400) => InHalfOpen(Int_151, v, Int_200)
            /\ (35400 < p /\ p <= 42400) => InHalfOpen(Int_201, v, Int_300)
            /\ 42400 < p => FLt(Int_301, v) /\ FLt(v, Int_500)

\* C5: the index returned by calculate_aqi of air_app.py is the maximum of
\* the two sub-indices rounded to one decimal place: it is never below
\* either rounded sub-index and it equals one of them.
C5_MaxRounded ==
    aqi # None =>
        \A r25 \in {Round1(Val(pm25_index))}, r10 \in {Round1(Val(pm10_index))} :
            /\ FLe(r25, Val(aqi))
            /\ FLe(r10, Val(aqi))
            /\ FEq(Val(aqi), r25) \/ FEq(Val(aqi), r10)
            /\ Val(aqi) = FromRat(Tenths(aqi), 10)

\* an index has been returned for sub-indices that round differently, PM10
\* the larger
C5_Witness ==
    /\ aqi # None
    /\ FLt(Val(pm25_index), Val(pm10_index))
    /\ FLt(Round1(Val(pm25_index)), Val(aqi))
    /\ FEq(Val(aqi), Round1(Val(pm10_index)))

\* |v - c/100| <= tol/100
About(v, c, tol) == FLe(FromRat(c - tol, 100), v) /\ FLe(v, FromRat(c + tol, 100))

IsExample(r) == r.pm25 = 3500 /\ r.pm10 = 7000

\* C6 as stated: for PM2.5 = 35.0 and PM10 = 70.0 the sub-indices are about
\* 99.85 and about 65.4, the index is 99.9 and its tier is Moderate.
C6_Original ==
    (aqi # None /\ IsExample(Val(reading))) =>
        /\ About(Val(pm25_index), 9985, 1)
        /\ About(Val(pm10_index), 6540, 5)
        /\ Tenths(aqi) = 999
        /\ info # None => Val(info).status = "Moderate"

\* C6 (amended): for PM2.5 = 35.0 and PM10 = 70.0 the sub-indices are about
\* 99.16 and about 58.42, the index is 99.2 and its tier is Moderate.
C6_Example ==
    (aqi # None /\ IsExample(Val(reading))) =>
        /\ About(Val(pm25_index), 9916, 1)
        /\ About(Val(pm10_index), 5842, 1)
        /\ Val(aqi) = FromRat(992, 10)
        /\ info # None => Val(info).status = "Moderate"

\* the example has been computed and classified
C6_Witness ==
    /\ aqi # None
    /\ info # None
    /\ IsExample(Val(reading))
    /\ Tenths(aqi) = 992
    /\ Val(info).status = "Moderate"

HasNegative(r) == ~NonNegative(r)

\* C7 as stated: with a negative concentration among the six, neither
\* calculate_aqi returns an index value.
C7_Original ==
    HasNegative(Val(reading)) => (aqi = None /\ st_aqi = None)

\* values of NO2, SO2, CO and O3, in hundredths, that every computed index
\* is compared under
OtherProbes ==
    {[no2 |-> 0, so2 |-> 0, co |-> 0, o3 |-> 0],
     [no2 |-> 20000, so2 |-> 0, co |-> 0, o3 |-> 0],
     [no2 |-> 0, so2 |-> 10000, co |-> 5000, o3 |-> 0],
     [no2 |-> 4000, so2 |-> 2000, co |-> 200, o3 |-> 30000],
     [no2 |-> 20000, so2 |-> 10000, co |-> 5000, o3 |-> 30000]}

WeightedNum(r) ==
    25 * r.pm25 + 12 * r.pm10 + 5 * r.no2 + 3 * r.so2 + 100 * r.co + 4 * r.o3

\* n / d rounded to the nearest integer, a tie to the even one (n >= 0, d > 0)
RoundHalfEven(n, d) ==
    LET q == n \div d
        r == n % d
    IN  IF 2 * r < d THEN q
        ELSE IF 2 * r > d THEN q + 1
        ELSE IF q % 2 = 0 THEN q ELSE q + 1

\* C9 as stated: for a non-negative reading the index of calculate_aqi of
\* streamlit_aqi_app.py is the weighted sum over 10 rounded to one decimal
\* place; for the default reading the sum over 10 is 24.15 and the index is
\* 24.2.
C9_Original ==
    (st_aqi # None /\ NonNegative(Val(reading))) =>
        /\ Tenths(st_aqi) = RoundHalfEven(WeightedNum(Val(reading)), 1000)
        /\ Val(reading) = DefaultReading =>
              /\ WeightedNum(Val(reading)) = 241500
              /\ Tenths(st_aqi) = 242

\* C9 (amended): for a non-negative reading the index of calculate_aqi of
\* streamlit_aqi_app.py is a one-decimal value within 0.05 of the weighted
\* sum over 10; for the default reading the sum over 10 is 24.15 and the
\* index is 24.1.
C9_Weighted ==
    (st_aqi # None /\ NonNegative(Val(reading))) =>
        \A t \in {Tenths(st_aqi)}, n \in {WeightedNum(Val(reading))} :
            /\ Val(st_aqi) = FromRat(t, 10)
            /\ 1000 * t - n <= 500
            /\ n - 1000 * t <= 500
            /\ Val(reading) = DefaultReading => (n = 241500 /\ t = 241)

\* the default reading has got its index, 24.1
C9_Witness ==
    /\ st_aqi # None
    /\ Val(reading) = DefaultReading
    /\ Val(st_aqi) = FromRat(241, 10)

\* C10: for a reading of six non-negative concentrations both calculate_aqi
\* return a non-negative index; for the all-zero reading both return 0.0.
C10_NonNegative ==
    NonNegative(Val(reading)) =>
        /\ aqi # None =>
              /\ ~FLt(Val(aqi), FZero)
              /\ AllZero(Val(reading)) => Val(aqi) = FZero
        /\ st_aqi # None =>
              /\ ~FLt(Val(st_aqi), FZero)
              /\ AllZero(Val(reading)) => Val(st_aqi) = FZero

\* both have returned 0.0 for the all-zero reading
C10_Witness ==
    /\ AllZero(Val(reading))
    /\ aqi # None
    /\ st_aqi # None
    /\ Val(aqi) = FZero
    /\ Val(st_aqi) = FZero

\* C20 as stated: at 0.1 resolution within the form's ranges, raising PM2.5
\* or PM10 by one step with the other kept never lowers the index
\* calculate_aqi returns and never moves it to a less severe tier.
C20_Original ==
    aqi # None =>
        \A r \in {Val(reading)} :
            \A up \in {[r EXCEPT !.pm25 = r.pm25 + 10],
                        [r EXCEPT !.pm10 = r.pm10 + 10]} :
                (up.pm25 <= 100 * MaxPM25 /\ up.pm10 <= 100 * MaxPM10) =>
                    \A higher \in {calculate_aqi(
                                        ToFloat(up.pm25), ToFloat(up.pm10),
                                        ToFloat(up.no2), ToFloat(up.so2),
                                        ToFloat(up.co), ToFloat(up.o3)).ret} :
                        /\ FLe(Val(aqi), higher)
                        /\ TierRank(get_aqi_status(Val(aqi)).status)
                              <= TierRank(get_aqi_status(higher).status)

\* the six concentrations of a history row or of last_prediction
ReadingOf(row) ==
    [pm25 |-> row.pm25, pm10 |-> row.pm10, no2 |-> row.no2, so2 |-> row.so2,
     co |-> row.co, o3 |-> row.o3]

\* the index calculate_aqi gives the six concentrations r
IndexOf(r) ==
    calculate_aqi(ToFloat(r.pm25), ToFloat(r.pm10), ToFloat(r.no2),
                  ToFloat(r.so2), ToFloat(r.co), ToFloat(r.o3)).ret

\* C11: the history table is append-only: over sign-up, login, logout,
\* prediction submit, navigation and the reads of stats and history, every
\* row stays with all its fields unchanged, and only a prediction submit
\* adds a row.
C11_AppendOnly ==
    [][/\ Len(db'.history) >= Len(db.history)
       /\ SubSeq(db'.history, 1, Len(db.history)) = db.history
       /\ db'.history # db.history =>
             /\ run'.event = "submit"
             /\ Len(db'.history) = Len(db.history) + 1]_vars

\* two rows are in the table, the first of an account that has logged out
\* since, and another account has logged in
C11_Witness ==
    /\ Len(db.history) = 2
    /\ run.event = "login"
    /\ session.logged_in
    /\ db.history[1].username # session.username

\* the index of the prediction shown is above the session's alert threshold
AboveThreshold(s) ==
    /\ s.last_prediction # None
    /\ s.settings # None
    /\ FLt(FromInt(Val(s.settings).alert_threshold),
           Val(s.last_prediction).aqi)

\* C12: a run of the predictor calls send_email_alert or send_sms_alert only
\* when the index of the prediction shown is strictly above the session's
\* alert_threshold; the run that follows a prediction submit with such an
\* index takes the alert branch; the e-mail needs email_notify and a stored
\* e-mail address, the SMS sms_notify and a stored phone number.
C12_AlertAboveThreshold ==
    [][/\ run'.calls # {} => run'.alert
       /\ run'.alert => AboveThreshold(session')
       /\ (run.event = "submit" /\ run.rerun /\ AboveThreshold(session))
              => run'.alert
       /\ \A c \in run'.calls :
              /\ c.to # ""
              /\ c.channel = "email" =>
                    /\ Val(session'.settings).email_notify
                    /\ \E u \in db'.users :
                          u.username = session'.username /\ u.email = c.to
              /\ c.channel = "sms" =>
                    /\ Val(session'.settings).sms_notify
                    /\ \E u \in db'.users :
                          u.username = session'.username /\ u.phone = c.to]_vars

\* a run has called both alert functions for an index above the threshold
C12_Witness ==
    /\ run.alert
    /\ AboveThreshold(session)
    /\ \E c \in run.calls : c.channel = "email"
    /\ \E c \in run.calls : c.channel = "sms"

NotConfigured ==
    {"Email credentials not configured", "SMS API key not configured"}

\* C13: send_email_alert and send_sms_alert never raise and return a pair
\* of a success flag and a diagnostic; without credentials they fail
\* without trying delivery; a failed delivery does not keep the run from
\* setting notification_shown.
C13_AlertsNeverRaise ==
    /\ ~run.raised
    /\ run.alert => session.notification_shown
    /\ \A c \in run.calls :
          /\ ~c.result.raised
          /\ Len(c.result.ret) = 2
          /\ c.result.ret[1] \in BOOLEAN
          /\ c.result.ret[2] # ""
          /\ c.result.ret[2] \in NotConfigured <=> ~c.result.attempted
          /\ ~c.result.attempted => ~c.result.ret[1]

\* a delivery has been tried and has failed, and notification_shown is set
C13_Witness ==
    /\ run.alert
    /\ session.notification_shown
    /\ \E c \in run.calls : c.result.attempted /\ ~c.result.ret[1]
    /\ \E c \in run.calls : ~c.result.attempted

\* the row a prediction submit has just written
NewRow(d) == d.history[Len(d.history)]

C15_Original ==
    [][/\ db'.history # db.history
          => ~AllZeroInputs(ReadingOf(NewRow(db')))
       /\ (session'.last_prediction # session.last_prediction
           /\ session'.last_prediction # None)
          => ~AllZeroInputs(ReadingOf(Val(session'.last_prediction)))]_vars

UserNames(d) == {u.username : u \in d.users}

SettingsNames(d) == {r.username : r \in d.settings}

\* C17: create_user keeps users and settings in step: the usernames of the
\* two tables are the same set and no username has two rows; a sign-up that
\* creates an account adds one row to each, the settings row with the
\* defaults (email_notify on, sms_notify off, alert_threshold 150); a call
\* with a username that exists returns False and changes neither table, and
\* no step changes the password, e-mail or phone of an existing user.
C17_TablesInStep ==
    [][/\ UserNames(db') = SettingsNames(db')
       /\ Cardinality(db'.users) = Cardinality(UserNames(db'))
       /\ Cardinality(db'.settings) = Cardinality(SettingsNames(db'))
       /\ db.users \subseteq db'.users
       /\ db.settings \subseteq db'.settings
       /\ (db'.users # db.users \/ db'.settings # db.settings) =>
             /\ run'.event = "signup"
             /\ run'.message = "Account created! Please login."
             /\ \E u \in db'.users :
                   /\ u.username \notin UserNames(db)
                   /\ db'.users = db.users \cup {u}
                   /\ db'.settings = db.settings \cup
                          {[username |-> u.username, email_notify |-> TRUE,
                            sms_notify |-> FALSE, alert_threshold |-> 150]}
       /\ (~run.rerun /\ run'.message = "Account created! Please login.")
             => Cardinality(db'.users) = Cardinality(db.users) + 1
       /\ run'.message = "Username already exists" =>
             /\ db' = db
             /\ \A u \in db.users :
                   create_user(db, u.username, "pw2", "other@mail",
                               "9000000009") = [db |-> db, ret |-> FALSE]]_vars

\* a sign-up with a username that exists has been refused, with two
\* accounts in each table
C17_Witness ==
    /\ run.message = "Username already exists"
    /\ Cardinality(db.users) = 2
    /\ Cardinality(db.settings) = 2

\* the stored password of the user is the hash of the password
HashMatches(d, username, password) ==
    \E u \in d.users :
        u.username = username /\ u.password = <<"sha256", password>>

\* C18: a session with logged_in = True has a non-empty username that names
\* a user of the users table, and every login submit that sets logged_in
\* carried a password whose hash is the stored one; a login submit with an
\* empty field or a password that does not match leaves logged_in, username
\* and settings as they were; logout sets logged_in False, username "" and
\* settings None.
C18_LoggedInIsVerified ==
    [][/\ session'.logged_in =>
             /\ session'.username # ""
             /\ session'.username \in UserNames(db')
       /\ run'.event = "login" =>
             \A username \in {""} \cup Usernames,
                password \in {""} \cup Passwords :
                 /\ (Takes(login_submit(db, session, username, password))
                     /\ session'.logged_in)
                       => /\ HashMatches(db, username, password)
                          /\ session'.username = username
                 /\ (username = "" \/ password = ""
                     \/ ~HashMatches(db, username, password))
                       => \A out \in {login_submit(db, session, username,
                                                   password)} :
                              /\ out.session.logged_in = session.logged_in
                              /\ out.session.username = session.username
                              /\ out.session.settings = session.settings
       /\ (run'.event = "login" /\ run'.message # "Login successful!")
             => session' = session
       /\ run'.event = "logout" =>
             /\ ~session'.logged_in
             /\ session'.username = ""
             /\ session'.settings = None]_vars

\* an account created with the second password is logged in, after a
\* logout of the other account
C18_Witness ==
    /\ session.logged_in
    /\ run.message = "Login successful!"
    /\ HashMatches(db, session.username, "pw2")
    /\ Cardinality(db.users) = 2

\* C19 as stated: a press of Predict with a concentration other than zero
\* ends without error and leaves predicted = True, aqi the weighted-sum
\* index of the inputs, category_info = get_aqi_category(aqi) and values
\* the six inputs.
C19_Original ==
    (st_run \in {"warning", "NameError", "predicted"}
     /\ ~AllZeroInputs(Val(reading))) =>
        /\ st_run = "predicted"
        /\ st_session.predicted
        /\ \A r \in {Val(reading)} :
              /\ st_session.aqi =
                     streamlit_calculate_aqi(
                         ToFloat(r.pm25), ToFloat(r.pm10), ToFloat(r.no2),
                         ToFloat(r.so2), ToFloat(r.co), ToFloat(r.o3))
              /\ st_session.values = r
        /\ st_session.category_info = get_aqi_category(st_session.aqi)

\* C21: alerts go out at most once for a submitted prediction: a run takes
\* the alert branch or calls send_email_alert or send_sms_alert only with
\* notification_shown unset, and leaves it set; once set it stays set, and
\* no run makes a call, over every further run and navigation of the
\* session, until a prediction submit unsets it.
C21_AlertOnce ==
    [][/\ run'.alert =>
             /\ ~session.notification_shown
             /\ session'.notification_shown
       /\ run'.calls # {} => run'.alert
       /\ (session.notification_shown /\ run'.event \notin {"submit", "start"})
             => /\ session'.notification_shown
                /\ ~run'.alert
                /\ run'.calls = {}
       /\ (session.notification_shown /\ ~session'.notification_shown)
             => run'.event \in {"submit", "start"}]_vars

\* the predictor is shown again, by navigation, after the run that sent the
\* alerts of the prediction: the index is above the threshold, the flag is
\* set and no call is made
C21_Witness ==
    /\ run.event = "nav"
    /\ session.nav_page = "Predict AQI"
    /\ AboveThreshold(session)
    /\ session.notification_shown
    /\ ~run.alert
    /\ run.calls = {}
    /\ Val(session.settings).email_notify

\* the run has shown a logged-in user the results column of the predictor
ShowsPrediction ==
    /\ session.logged_in
    /\ session.nav_page = "Predict AQI"
    /\ session.last_prediction # None
    /\ run.event \in {"nav", "none"}

\* C22 as stated: a prediction shown on the predictor page, and a prediction
\* an alert is sent about, was submitted by the user who is logged in.
\* The submit that stored last_prediction wrote the last row of the history
\* table, which names its user.
C22_Original ==
    /\ ShowsPrediction => NewRow(db).username = session.username
    /\ (run.alert /\ run.calls # {}) => NewRow(db).username = session.username

====
